---- MODULE Spec2Model ----
(***************************************************************************)
(* FactoryFlow inventory service (app/main.py, app/models.py).             *)
(*                                                                         *)
(* The ledger is the table "items"; every endpoint works on it through a   *)
(* SQLAlchemy Session: objects loaded by a query live in the session's     *)
(* identity map, attribute assignments stay in memory, and db.commit()     *)
(* flushes the changed objects and the added ones in one transaction.      *)
(* Quantities are Python ints; the width of the storage column is not      *)
(* modelled.                                                               *)
(***************************************************************************)
EXTENDS Integers, Sequences, FiniteSets, TLC

\* ------------------------------------------------------------------ bounds
MaxQty == 2      \* largest quantity a receive may bring a record to
MaxAmt == 2      \* request quantities are drawn from -MaxAmt..MaxAmt
MaxId  == 3      \* ids the primary-key sequence may hand out

Names     == {"Widget", "Gear"}
Locations == {"A", "B"}
Amounts   == (0 - MaxAmt)..MaxAmt
Procs     == {1, 2}      \* requests that may be in flight together

VARIABLES items,    \* committed rows of table items: id -> [name, location, quantity]
          nextId,   \* next value of the primary-key sequence
          last,     \* the response being returned, NoResponse between requests
          pc,       \* per request in flight: the statement it stands before
          req,      \* per request in flight: its arguments and the objects it holds
          sess,     \* per request in flight: its Session
          seen      \* what a GET /inventory has just read, NoRead otherwise

vars == <<items, nextId, last, pc, req, sess, seen>>

\* ------------------------------------------------------------ the table
\* models.py Item: one row (id is the key of the table function)
Item(n, q, l) == [name |-> n, quantity |-> q, location |-> l]

\* mutant of CheckConstraint: the table carries no check
NoCheckConstraint(row) == TRUE

\* models.py __table_args__: CheckConstraint('quantity >= 0')
CheckConstraint(row) == row.quantity >= 0

Min(S) == CHOOSE x \in S : \A y \in S : x <= y

\* db.query(Item).filter(Item.name == n, Item.location == l): matching ids
Filter(tbl, n, l) == {i \in DOMAIN tbl : tbl[i].name = n /\ tbl[i].location = l}

\* .first(): the first matching row, 0 for None. A ledger built one request
\* at a time holds at most one matching row; among several the lowest id is
\* taken.
First(tbl, n, l) == IF Filter(tbl, n, l) = {} THEN 0 ELSE Min(Filter(tbl, n, l))

RECURSIVE SumQty(_, _)
SumQty(tbl, S) ==
    IF S = {} THEN 0
    ELSE LET i == CHOOSE x \in S : TRUE IN tbl[i].quantity + SumQty(tbl, S \ {i})

\* SELECT SUM(quantity) FROM items WHERE name = n
Total(tbl, n) == SumQty(tbl, {i \in DOMAIN tbl : tbl[i].name = n})

\* ---------------------------------------------------------- the session
\* A Session: objs is the identity map (id -> the quantity loaded and the
\* quantity held in memory), new the objects passed to db.add().
EmptySession == [objs |-> <<>>, new |-> <<>>]

\* mutant of Load: every query hands back a fresh copy of the row
LoadFresh(s, tbl, i) ==
    [s EXCEPT !.objs = (i :> [orig |-> tbl[i].quantity, quantity |-> tbl[i].quantity]) @@ @]

\* An object returned by a query: the identity map hands back the object
\* already loaded for that primary key, with its in-memory attributes.
Load(s, tbl, i) ==
    IF i \in DOMAIN s.objs THEN s
    ELSE [s EXCEPT !.objs = (i :> [orig |-> tbl[i].quantity, quantity |-> tbl[i].quantity]) @@ @]

\* obj.quantity += d on a loaded object (in memory only)
AddQty(s, i, d) == [s EXCEPT !.objs[i].quantity = @ + d]

\* db.add(Item(...))
Add(s, row) == [s EXCEPT !.new = Append(@, row)]

\* rows the flush writes: UPDATE for loaded objects whose quantity changed,
\* INSERT for added objects with the next ids of the sequence
Dirty(s) == {i \in DOMAIN s.objs : s.objs[i].quantity # s.objs[i].orig}
Flushed(tbl, nid, s) ==
    [i \in DOMAIN tbl \cup (nid..(nid + Len(s.new) - 1)) |->
        IF i \in DOMAIN tbl
        THEN IF i \in Dirty(s) THEN [tbl[i] EXCEPT !.quantity = s.objs[i].quantity]
             ELSE tbl[i]
        ELSE s.new[i - nid + 1]]

\* db.commit(): all writes of the session become visible together, or the
\* storage rejects the transaction and nothing changes.
Commit(tbl, nid, s) ==
    IF /\ Dirty(s) \subseteq DOMAIN tbl
       /\ \A i \in Dirty(s) : CheckConstraint(s.objs[i])
       /\ \A k \in 1..Len(s.new) : CheckConstraint(s.new[k])
    THEN [ok |-> TRUE, items |-> Flushed(tbl, nid, s), nextId |-> nid + Len(s.new)]
    ELSE [ok |-> FALSE, items |-> tbl, nextId |-> nid]

\* ------------------------------------------------------------ endpoints
\* Every handler maps the committed table and the sequence to its HTTP
\* response (status, the values its message carries, the items of its body)
\* and to the table and sequence it leaves.
Result(st, detail, body, tbl, nid) ==
    [status |-> st, detail |-> detail, body |-> body, items |-> tbl, nextId |-> nid]

\* ItemResponse, read after db.refresh(obj)
ItemResponse(tbl, i) ==
    [id |-> i, name |-> tbl[i].name, quantity |-> tbl[i].quantity,
     location |-> tbl[i].location]

\* GET /inventory: the committed rows, all or those of one location
get_inventory(tbl, location) ==
    IF location # "" THEN {ItemResponse(tbl, i) : i \in {j \in DOMAIN tbl : tbl[j].location = location}}
    ELSE {ItemResponse(tbl, i) : i \in DOMAIN tbl}

\* ItemCreate: quantity: int = Field(..., ge=0)
ItemCreateValid(q) == q >= 0
\* MoveRequest: quantity: int = Field(..., gt=0)
MoveRequestValid(q) == q > 0

\* mutants of Upsert: a row is always inserted; the quantity is overwritten
UpsertAlwaysInsert(tbl, n, q, l) == Add(EmptySession, Item(n, q, l))
UpsertOverwrite(tbl, n, q, l) ==
    LET existing == First(tbl, n, l) IN
    IF existing # 0
    THEN AddQty(Load(EmptySession, tbl, existing), existing, q - tbl[existing].quantity)
    ELSE Add(EmptySession, Item(n, q, l))

\* create_item, lines 99-100 and 105-106: the session before db.commit()
Upsert(tbl, n, q, l) ==
    LET existing == First(tbl, n, l) IN
    IF existing # 0 THEN AddQty(Load(EmptySession, tbl, existing), existing, q)
    ELSE Add(EmptySession, Item(n, q, l))

\* POST /inventory
create_item(tbl, nid, n, q, l) ==
    IF ~ItemCreateValid(q) THEN Result(422, <<>>, <<>>, tbl, nid)
    ELSE LET existing == First(tbl, n, l)
             c == Commit(tbl, nid, Upsert(tbl, n, q, l))
             obj == IF existing # 0 THEN existing ELSE nid
         IN IF c.ok THEN Result(201, <<>>, <<ItemResponse(c.items, obj)>>, c.items, c.nextId)
            ELSE Result(500, <<>>, <<>>, c.items, c.nextId)

\* add_item_form, lines 186-191: the session before db.commit()
FormUpsert(tbl, n, q, l) ==
    LET existing == First(tbl, n, l) IN
    IF existing # 0 THEN AddQty(Load(EmptySession, tbl, existing), existing, q)
    ELSE Add(EmptySession, Item(n, q, l))

\* POST /add-item-form
add_item_form(tbl, nid, n, q, l) ==
    LET c == Commit(tbl, nid, FormUpsert(tbl, n, q, l)) IN
    Result(IF c.ok THEN 303 ELSE 500, <<>>, <<>>, c.items, c.nextId)

\* mutant of Insufficient: the comparison is turned round
InsufficientFlipped(have, need) == have > need

\* move_inventory, line 123: if from_item.quantity < move.quantity
Insufficient(have, need) == have < need

\* mutant of Decreased: the source is loaded but never decremented
DecreasedNot(tbl, from, q) == Load(EmptySession, tbl, from)

\* move_inventory, lines 126-127: the source object decremented in memory
Decreased(tbl, from, q) == AddQty(Load(EmptySession, tbl, from), from, 0 - q)

\* mutant of ToItem: an existing destination is set to the amount moved
ToItemOverwrite(s, tbl, n, q, t) ==
    LET to == First(tbl, n, t) IN
    IF to # 0 THEN [Load(s, tbl, to) EXCEPT !.objs[to].quantity = q]
    ELSE Add(s, Item(n, q, t))

\* move_inventory, lines 129-139: find or create the destination
ToItem(s, tbl, n, q, t) ==
    LET to == First(tbl, n, t) IN
    IF to # 0 THEN AddQty(Load(s, tbl, to), to, q)
    ELSE Add(s, Item(n, q, t))

\* mutant of move_inventory: a missing source is not noticed, the destination
\* is still found or created
move_inventory_unchecked(tbl, nid, n, q, f, t) ==
    IF ~MoveRequestValid(q) THEN Result(422, <<>>, <<>>, tbl, nid)
    ELSE LET from == First(tbl, n, f)
             c == Commit(tbl, nid, ToItem(EmptySession, tbl, n, q, t))
         IN IF from = 0 THEN Result(IF c.ok THEN 200 ELSE 500, <<q, n, f, t>>, <<>>, c.items, c.nextId)
            ELSE Result(400, <<tbl[from].quantity, q>>, <<>>, tbl, nid)

\* move_inventory, lines 141-149: commit, refresh both objects, respond
Moved(c, from, to, n, q, f, t) ==
    IF c.ok
    THEN Result(200, <<q, n, f, t>>,
                <<ItemResponse(c.items, from), ItemResponse(c.items, to)>>,
                c.items, c.nextId)
    ELSE Result(500, <<>>, <<>>, c.items, c.nextId)

\* POST /move
move_inventory(tbl, nid, n, q, f, t) ==
    IF ~MoveRequestValid(q) THEN Result(422, <<>>, <<>>, tbl, nid)
    ELSE LET from == First(tbl, n, f) IN
         IF from = 0 THEN Result(404, <<n, f>>, <<>>, tbl, nid)
         ELSE IF Insufficient(tbl[from].quantity, q)
         THEN Result(400, <<tbl[from].quantity, q>>, <<>>, tbl, nid)
         ELSE Moved(Commit(tbl, nid, ToItem(Decreased(tbl, from, q), tbl, n, q, t)),
                    from, IF First(tbl, n, t) # 0 THEN First(tbl, n, t) ELSE nid,
                    n, q, f, t)

\* move_item_form, line 214: the source object decremented in memory
FormDecreased(tbl, from, q) == AddQty(Load(EmptySession, tbl, from), from, 0 - q)

\* move_item_form, lines 216-224: find or create the destination
FormToItem(s, tbl, n, q, t) ==
    LET to == First(tbl, n, t) IN
    IF to # 0 THEN AddQty(Load(s, tbl, to), to, q)
    ELSE Add(s, Item(n, q, t))

\* move_item_form, lines 226-227: commit and redirect
FormMoved(c) == Result(IF c.ok THEN 303 ELSE 500, <<>>, <<>>, c.items, c.nextId)

\* POST /move-item-form
move_item_form(tbl, nid, n, q, f, t) ==
    LET from == First(tbl, n, f) IN
    IF from = 0 \/ tbl[from].quantity < q THEN Result(303, <<>>, <<>>, tbl, nid)
    ELSE FormMoved(Commit(tbl, nid, FormToItem(FormDecreased(tbl, from, q), tbl, n, q, t)))

\* mutant of delete_item: a record that still holds stock is not deleted
delete_item_empty_only(tbl, nid, id) ==
    IF id \notin DOMAIN tbl THEN Result(404, <<id>>, <<>>, tbl, nid)
    ELSE IF tbl[id].quantity > 0 THEN Result(400, <<id>>, <<>>, tbl, nid)
    ELSE Result(200, <<id>>, <<>>, [i \in DOMAIN tbl \ {id} |-> tbl[i]], nid)

\* DELETE /inventory/{item_id}
delete_item(tbl, nid, id) ==
    IF id \notin DOMAIN tbl THEN Result(404, <<id>>, <<>>, tbl, nid)
    ELSE Result(200, <<id>>, <<>>, [i \in DOMAIN tbl \ {id} |-> tbl[i]], nid)

\* ------------------------------------------------- sequential behaviour
Response(op, r) == [op |-> op, status |-> r.status, detail |-> r.detail, body |-> r.body]

NoResponse == [op |-> "none", status |-> 0, detail |-> <<>>, body |-> <<>>]

\* no request in flight
NoReq == [op |-> "none", name |-> "", quantity |-> 0, from |-> "", to |-> "",
          src |-> 0, dst |-> 0, base |-> <<>>, status |-> 0]

NoRead == [location |-> "none", rows |-> {}]

AllIdle == \A p \in Procs : pc[p] = "idle"

Init ==
    /\ items = <<>>
    /\ nextId = 1
    /\ last = NoResponse
    /\ pc = [p \in Procs |-> "idle"]
    /\ req = [p \in Procs |-> NoReq]
    /\ sess = [p \in Procs |-> EmptySession]
    /\ seen = NoRead

\* the model stops handing out ids at MaxId and keeps quantities small
InBounds(r) ==
    /\ r.nextId <= MaxId + 1
    /\ \A i \in DOMAIN r.items : r.items[i].quantity <= MaxQty

\* One request served from start to response (requests run one at a time).
Serve(op, r) ==
    /\ last = NoResponse /\ AllIdle /\ seen = NoRead
    /\ InBounds(r)
    /\ items' = r.items
    /\ nextId' = r.nextId
    /\ last' = Response(op, r)
    /\ UNCHANGED <<pc, req, sess, seen>>

CreateItem ==
    \E n \in Names, q \in Amounts, l \in Locations :
        Serve("create_item", create_item(items, nextId, n, q, l))

AddItemForm ==
    \E n \in Names, q \in Amounts, l \in Locations :
        Serve("add_item_form", add_item_form(items, nextId, n, q, l))

MoveInventory ==
    \E n \in Names, q \in Amounts, f \in Locations, t \in Locations :
        Serve("move_inventory", move_inventory(items, nextId, n, q, f, t))

MoveItemForm ==
    \E n \in Names, q \in Amounts, f \in Locations, t \in Locations :
        Serve("move_item_form", move_item_form(items, nextId, n, q, f, t))

DeleteItem ==
    \E id \in 1..MaxId :
        Serve("delete_item", delete_item(items, nextId, id))

\* The response has gone out; the service waits for the next request.
Respond ==
    /\ last # NoResponse
    /\ last' = NoResponse
    /\ UNCHANGED <<items, nextId, pc, req, sess, seen>>

Next ==
    \/ CreateItem
    \/ AddItemForm
    \/ MoveInventory
    \/ MoveItemForm
    \/ DeleteItem
    \/ Respond

Spec == Init /\ [][Next]_vars

\* ------------------------------------------- a transfer, step by step
\* mutant of BeforeCommit: every statement is committed as it is executed
BeforeCommitWritten(tbl, nid, s) == Commit(tbl, nid, s).items

\* What the other sessions can read after a statement of the handler other
\* than db.commit(): the committed table as it was.
BeforeCommit(tbl, nid, s) == tbl

\* the handler's result when run alone on the ledger it started from
Alone(r) ==
    IF r.op = "move_inventory"
    THEN move_inventory(r.base, nextId, r.name, r.quantity, r.from, r.to)
    ELSE move_item_form(r.base, nextId, r.name, r.quantity, r.from, r.to)

\* move_inventory lines 114-127, move_item_form lines 206-214: look up the
\* source, return early, or decrement the source object in memory
FindSource(p) ==
    \E op \in {"move_inventory", "move_item_form"}, n \in Names, q \in Amounts,
       f \in Locations, t \in Locations :
        LET from == First(items, n, f)
            r == [op |-> op, name |-> n, quantity |-> q, from |-> f, to |-> t,
                  src |-> from, dst |-> 0, base |-> items, status |-> 0]
            returns == \/ op = "move_inventory" /\ ~MoveRequestValid(q)
                       \/ from = 0
                       \/ op = "move_inventory" /\ Insufficient(items[from].quantity, q)
                       \/ op = "move_item_form" /\ items[from].quantity < q
        IN /\ pc[p] = "idle" /\ AllIdle /\ last = NoResponse /\ seen = NoRead
           /\ InBounds(Alone(r))
           /\ IF returns
              THEN /\ last' = Response(op, Alone(r))
                   /\ UNCHANGED <<items, nextId, pc, req, sess, seen>>
              ELSE /\ sess' = [sess EXCEPT ![p] = IF op = "move_inventory"
                                                   THEN Decreased(items, from, q)
                                                   ELSE FormDecreased(items, from, q)]
                   /\ req' = [req EXCEPT ![p] = r]
                   /\ pc' = [pc EXCEPT ![p] = "to_item"]
                   /\ items' = BeforeCommit(items, nextId, sess'[p])
                   /\ UNCHANGED <<nextId, last, seen>>

\* move_inventory lines 129-139, move_item_form lines 216-224
FindDestination(p) ==
    /\ pc[p] = "to_item" /\ seen = NoRead
    /\ sess' = [sess EXCEPT ![p] =
                   IF req[p].op = "move_inventory"
                   THEN ToItem(sess[p], items, req[p].name, req[p].quantity, req[p].to)
                   ELSE FormToItem(sess[p], items, req[p].name, req[p].quantity, req[p].to)]
    /\ req' = [req EXCEPT ![p].dst = First(items, req[p].name, req[p].to)]
    /\ pc' = [pc EXCEPT ![p] = "commit"]
    /\ items' = BeforeCommit(items, nextId, sess'[p])
    /\ UNCHANGED <<nextId, last, seen>>

\* move_inventory lines 141-149, move_item_form lines 226-227
CommitMove(p) ==
    /\ pc[p] = "commit" /\ seen = NoRead
    /\ LET c == Commit(items, nextId, sess[p])
           r == IF req[p].op = "move_inventory"
                THEN Moved(c, req[p].src, IF req[p].dst # 0 THEN req[p].dst ELSE nextId,
                           req[p].name, req[p].quantity, req[p].from, req[p].to)
                ELSE FormMoved(c)
       IN /\ items' = r.items
          /\ nextId' = r.nextId
          /\ last' = Response(req[p].op, r)
    /\ pc' = [pc EXCEPT ![p] = "idle"]
    /\ req' = [req EXCEPT ![p] = NoReq]
    /\ sess' = [sess EXCEPT ![p] = EmptySession]
    /\ UNCHANGED seen

\* GET /inventory: one query over the committed rows. The read is a single
\* instant, so its answer is handed back before any other step is taken.
GetInventory ==
    /\ seen = NoRead
    /\ \E location \in Locations \cup {""} :
        seen' = [location |-> location, rows |-> get_inventory(items, location)]
    /\ UNCHANGED <<items, nextId, last, pc, req, sess>>

ReturnInventory ==
    /\ seen # NoRead
    /\ seen' = NoRead
    /\ UNCHANGED <<items, nextId, last, pc, req, sess>>

\* Receives served one at a time, one transfer served statement by
\* statement, and a reader of the committed inventory.
Writer == CHOOSE p \in Procs : TRUE

NextReader ==
    \/ CreateItem
    \/ Respond
    \/ FindSource(Writer)
    \/ FindDestination(Writer)
    \/ CommitMove(Writer)
    \/ GetInventory
    \/ ReturnInventory

SpecReader == Init /\ [][NextReader]_vars

\* ------------------------------------- two requests served at a time
\* Each request runs in its own Session (get_db) against the committed
\* table: its queries read what is committed when they are executed, its
\* changes stay in its Session until its db.commit() writes them, an UPDATE
\* carrying the quantity computed in memory. No handler locks a row
\* (no with_for_update, no version column).
Transfers == {"move_inventory", "move_item_form"}
Receives == {"create_item", "add_item_form"}

\* the two requests are about one item and ask for 0..MaxAmt units
Raced == {"Widget"}
Asked == 0..MaxAmt

Others(p) == Procs \ {p}

\* Filter(...).first() has no ORDER BY: on a table holding two rows of one
\* pair its answer is unspecified, so requests are followed only from
\* tables without such rows.
NoDuplicates(tbl) ==
    \A i \in DOMAIN tbl, j \in DOMAIN tbl :
        (tbl[i].name = tbl[j].name /\ tbl[i].location = tbl[j].location) => i = j

\* A request is taken up while no other request is served or while the other
\* one is still under way; requests overlap in pairs.
Accept(p) ==
    /\ pc[p] = "idle"
    /\ \A o \in Others(p) : pc[o] # "done"
    /\ NoDuplicates(items)
    /\ last = NoResponse /\ seen = NoRead

\* the handler returns or raises before it changes anything
Returned(p, r, st) ==
    /\ pc' = [pc EXCEPT ![p] = "done"]
    /\ req' = [req EXCEPT ![p] = [r EXCEPT !.status = st]]
    /\ UNCHANGED <<items, nextId, last, sess, seen>>

\* move_inventory lines 114-127, move_item_form lines 206-214
BeginTransfer(p) ==
    \E op \in Transfers, n \in Raced, q \in Asked, f \in Locations, t \in Locations :
        LET from == First(items, n, f)
            r == [op |-> op, name |-> n, quantity |-> q, from |-> f, to |-> t,
                  src |-> from, dst |-> 0, base |-> items, status |-> 0]
            returns == \/ op = "move_inventory" /\ ~MoveRequestValid(q)
                       \/ from = 0
                       \/ op = "move_inventory" /\ Insufficient(items[from].quantity, q)
                       \/ op = "move_item_form" /\ items[from].quantity < q
        IN /\ Accept(p)
           /\ IF returns
              THEN Returned(p, r, Alone(r).status)
              ELSE /\ sess' = [sess EXCEPT ![p] = IF op = "move_inventory"
                                                   THEN Decreased(items, from, q)
                                                   ELSE FormDecreased(items, from, q)]
                   /\ req' = [req EXCEPT ![p] = r]
                   /\ pc' = [pc EXCEPT ![p] = "to_item"]
                   /\ UNCHANGED <<items, nextId, last, seen>>

\* create_item lines 93-106, add_item_form lines 186-191
BeginReceive(p) ==
    \E op \in Receives, n \in Raced, q \in Asked, l \in Locations :
        LET r == [op |-> op, name |-> n, quantity |-> q, from |-> "", to |-> l,
                  src |-> 0, dst |-> First(items, n, l), base |-> items, status |-> 0]
        IN /\ Accept(p)
           /\ IF op = "create_item" /\ ~ItemCreateValid(q)
              THEN Returned(p, r, 422)
              ELSE /\ sess' = [sess EXCEPT ![p] = IF op = "create_item"
                                                   THEN Upsert(items, n, q, l)
                                                   ELSE FormUpsert(items, n, q, l)]
                   /\ req' = [req EXCEPT ![p] = r]
                   /\ pc' = [pc EXCEPT ![p] = "commit"]
                   /\ UNCHANGED <<items, nextId, last, seen>>

\* the status a handler answers after its db.commit()
Committed(op, ok) ==
    IF ~ok THEN 500
    ELSE IF op = "create_item" THEN 201
    ELSE IF op = "move_inventory" THEN 200
    ELSE 303

\* db.commit() of create_item (101, 107), move_inventory (141),
\* add_item_form (193) and move_item_form (226)
CommitRequest(p) ==
    /\ pc[p] = "commit" /\ seen = NoRead
    /\ \A c \in {Commit(items, nextId, sess[p])} :
        /\ InBounds(c)
        /\ items' = c.items
        /\ nextId' = c.nextId
        /\ req' = [req EXCEPT ![p].status = Committed(req[p].op, c.ok)]
    /\ pc' = [pc EXCEPT ![p] = "done"]
    /\ UNCHANGED <<last, sess, seen>>

\* the responses have gone out and the Sessions are closed (get_db)
Finish(p) ==
    /\ pc[p] = "done"
    /\ \A o \in Others(p) : pc[o] \in {"idle", "done"}
    /\ pc' = [pc EXCEPT ![p] = "idle"]
    /\ req' = [req EXCEPT ![p] = NoReq]
    /\ sess' = [sess EXCEPT ![p] = EmptySession]
    /\ UNCHANGED <<items, nextId, last, seen>>

NextConcurrent ==
    \E p \in Procs :
        \/ BeginTransfer(p)
        \/ BeginReceive(p)
        \/ FindDestination(p)
        \/ CommitRequest(p)
        \/ Finish(p)

SpecConcurrent == Init /\ [][NextConcurrent]_vars

\* ------------------------------------------------------------ properties
\* no request is being served: the ledger is as the last request left it
Idle == last = NoResponse

\* quantity held for (n, l), 0 when there is no record
Qty(tbl, n, l) == IF First(tbl, n, l) = 0 THEN 0 ELSE tbl[First(tbl, n, l)].quantity

\* every row of tbl outside the pairs (n, l), l \in ls, is the same row in tbl2,
\* and tbl2 has no row outside those pairs that tbl lacks
SameOutside(tbl, tbl2, n, ls) ==
    /\ \A i \in DOMAIN tbl :
        (tbl[i].name = n /\ tbl[i].location \in ls) \/ (i \in DOMAIN tbl2 /\ tbl2[i] = tbl[i])
    /\ \A i \in DOMAIN tbl2 :
        (tbl2[i].name = n /\ tbl2[i].location \in ls) \/ i \in DOMAIN tbl

\* the source record of (n, f) exists and holds at least q > 0
CanMove(tbl, n, q, f) == q > 0 /\ First(tbl, n, f) # 0 /\ tbl[First(tbl, n, f)].quantity >= q

\* C1: conservation. From every reachable ledger, a transfer through POST /move
\* or POST /move-item-form, with any arguments, leaves the sum of quantity
\* over the records of every item name as it was.
C1_Conservation ==
    Idle =>
    \A n \in Names, q \in Amounts, f \in Locations, t \in Locations :
        \A x \in {move_inventory(items, nextId, n, q, f, t),
                  move_item_form(items, nextId, n, q, f, t)} :
            \A m \in Names : Total(x.items, m) = Total(items, m)

\* a transfer between two different records has just succeeded
C1_Witness ==
    /\ last.op = "move_inventory" /\ last.status = 200
    /\ last.body[1].id # last.body[2].id
    /\ last.body[1].quantity > 0

\* C2: non-negativity. Every committed record has quantity >= 0, whatever
\* integer quantities the receive and transfer endpoints were given.
C2_NonNegative == \A i \in DOMAIN items : items[i].quantity >= 0

\* the form endpoint was given a quantity the storage refused
C2_Witness == last.op = "add_item_form" /\ last.status = 500 /\ DOMAIN items # {}

\* C3: uniqueness. Requests served one at a time from the empty ledger leave
\* at most one record for each (name, location).
C3_Unique ==
    \A n \in Names, l \in Locations : Cardinality(Filter(items, n, l)) <= 1

\* POST /inventory answered with a record that existed before the request
C3_Witness ==
    /\ last.op = "create_item" /\ last.status = 201
    /\ last.body[1].id < nextId - 1

\* C4: a transfer of q > 0 from A to B # A whose source holds at least q
\* succeeds and leaves (n, A) with q less and (n, B) with q more, B counting
\* as 0 and being created when it had no record; on both surfaces.
C4_Transfer ==
    Idle =>
    \A n \in Names, q \in Amounts, f \in Locations, t \in Locations :
        (f # t /\ CanMove(items, n, q, f)) =>
            /\ \A r \in {move_inventory(items, nextId, n, q, f, t)} :
                /\ r.status = 200
                /\ r.body[1].quantity = Qty(items, n, f) - q
                /\ r.body[2].quantity = Qty(items, n, t) + q
            /\ \A x \in {move_inventory(items, nextId, n, q, f, t),
                         move_item_form(items, nextId, n, q, f, t)} :
                /\ x.status \in {200, 303}
                /\ Qty(x.items, n, f) = Qty(items, n, f) - q
                /\ Qty(x.items, n, t) = Qty(items, n, t) + q
                /\ Cardinality(Filter(x.items, n, f)) = 1
                /\ Cardinality(Filter(x.items, n, t)) = 1

\* a transfer has just created its destination record
C4_Witness ==
    /\ last.op = "move_inventory" /\ last.status = 200
    /\ last.detail[3] # last.detail[4]
    /\ last.body[2].id = nextId - 1
    /\ last.body[2].quantity = last.detail[1]

\* C5: a transfer whose source record exists with quantity < amount is
\* answered 400 by POST /move with the have and need amounts, and on both
\* surfaces the ledger and the id sequence stay exactly as they were.
C5_Insufficient ==
    Idle =>
    \A n \in Names, q \in Amounts, f \in Locations, t \in Locations :
        (First(items, n, f) # 0 /\ items[First(items, n, f)].quantity < q) =>
            /\ \A r \in {move_inventory(items, nextId, n, q, f, t)} :
                /\ r.status = 400
                /\ r.detail = <<items[First(items, n, f)].quantity, q>>
                /\ r.items = items /\ r.nextId = nextId
            /\ \A g \in {move_item_form(items, nextId, n, q, f, t)} :
                g.items = items /\ g.nextId = nextId

\* POST /move has just refused a transfer for lack of stock
C5_Witness ==
    /\ last.op = "move_inventory" /\ last.status = 400
    /\ last.detail[1] < last.detail[2]

\* C6: a transfer whose source record does not exist changes nothing on
\* either surface; POST /move answers 404 for every amount its schema admits
\* (amount > 0), and answers the same when the call is repeated.
C6_NotFound ==
    Idle =>
    \A n \in Names, q \in Amounts, f \in Locations, t \in Locations :
        First(items, n, f) = 0 =>
            /\ \A r \in {move_inventory(items, nextId, n, q, f, t)} :
                /\ r.items = items /\ r.nextId = nextId
                /\ q > 0 => r.status = 404
                /\ move_inventory(r.items, r.nextId, n, q, f, t) = r
            /\ \A g \in {move_item_form(items, nextId, n, q, f, t)} :
                g.items = items /\ g.nextId = nextId

\* POST /move has just answered 404 while other records exist
C6_Witness == last.op = "move_inventory" /\ last.status = 404 /\ DOMAIN items # {}

\* C7: self-transfer. For a record (n, L) holding at least q > 0, a transfer
\* from L to L succeeds, leaves the whole ledger and the id sequence as they
\* were, and POST /move returns the same record as source and destination.
C7_SelfTransfer ==
    Idle =>
    \A n \in Names, q \in Amounts, l \in Locations :
        CanMove(items, n, q, l) =>
            /\ \A r \in {move_inventory(items, nextId, n, q, l, l)} :
                /\ r.status = 200
                /\ r.items = items /\ r.nextId = nextId
                /\ r.body[1] = r.body[2]
                /\ r.body[1] = ItemResponse(items, First(items, n, l))
            /\ \A g \in {move_item_form(items, nextId, n, q, l, l)} :
                g.status = 303 /\ g.items = items /\ g.nextId = nextId

\* POST /move has just served a transfer from a location to itself
C7_Witness ==
    /\ last.op = "move_inventory" /\ last.status = 200
    /\ last.detail[3] = last.detail[4]

\* what C8 asks of one receive of q at (n, l) that left result x
Received(x, n, q, l) ==
    /\ x.status \in {201, 303}
    /\ Cardinality(Filter(x.items, n, l)) = 1
    /\ Qty(x.items, n, l) = Qty(items, n, l) + q
    /\ SameOutside(items, x.items, n, {l})
    /\ x.nextId = IF First(items, n, l) = 0 THEN nextId + 1 ELSE nextId
    /\ First(items, n, l) # 0 => Filter(x.items, n, l) = Filter(items, n, l)

\* C8: receive with amount >= 0 is an additive upsert on both surfaces: the
\* pair ends with exactly one record holding its previous quantity (0 when
\* it had none) plus the amount, no other row is touched, a new row is
\* inserted only when the pair had none; a second receive adds up again.
C8_Receive ==
    Idle =>
    \A n \in Names, q \in Amounts, l \in Locations :
        q >= 0 =>
            /\ \A g \in {add_item_form(items, nextId, n, q, l)} : Received(g, n, q, l)
            /\ \A r \in {create_item(items, nextId, n, q, l)} :
                /\ Received(r, n, q, l)
                /\ r.body[1].quantity = Qty(items, n, l) + q
                /\ \A q2 \in Amounts : q2 >= 0 =>
                    \A r2 \in {create_item(r.items, r.nextId, n, q2, l)} :
                        /\ r2.status = 201
                        /\ Filter(r2.items, n, l) = Filter(r.items, n, l)
                        /\ Qty(r2.items, n, l) = Qty(items, n, l) + q + q2
                        /\ r2.body[1].quantity = Qty(items, n, l) + q + q2

\* POST /inventory has just added to a record that already held stock
C8_Witness ==
    /\ last.op = "create_item" /\ last.status = 201
    /\ last.body[1].id < nextId - 1
    /\ last.body[1].quantity = MaxQty

\* C9 as claimed: a transfer with amount <= 0 is refused and changes nothing,
\* on POST /move and on POST /move-item-form.
C9_InvalidAmount ==
    Idle =>
    \A n \in Names, q \in Amounts, f \in Locations, t \in Locations :
        q <= 0 =>
            /\ \A r \in {move_inventory(items, nextId, n, q, f, t)} :
                r.status = 422 /\ r.items = items /\ r.nextId = nextId
            /\ \A g \in {move_item_form(items, nextId, n, q, f, t)} :
                g.items = items /\ g.nextId = nextId

\* C10: atomic visibility. Whatever GET /inventory reads while a transfer is
\* between its first statement and its commit is the inventory the transfer
\* started from, and the step that commits makes the ledger exactly what the
\* whole transfer leaves (both records changed) or leaves it as it was.
C10_ReadsBefore ==
    \A p \in Procs :
        (seen # NoRead /\ pc[p] # "idle") =>
            seen.rows = get_inventory(req[p].base, seen.location)

C10_CommitsWhole ==
    \A p \in Procs :
        (pc[p] = "commit" /\ pc'[p] = "idle") =>
            /\ items = req[p].base
            /\ items' = Alone(req[p]).items
            /\ items' = items \/ last'.status \in {200, 303}
            /\ last' = Response(req[p].op, Alone(req[p]))

C10_AtomicVisibility == []C10_ReadsBefore /\ [][C10_CommitsWhole]_vars

\* the inventory is read while a transfer holds both changes uncommitted
C10_Witness ==
    /\ seen # NoRead
    /\ \E p \in Procs :
        /\ pc[p] = "commit" /\ req[p].from # req[p].to /\ req[p].quantity > 0
        /\ seen.rows = get_inventory(items, seen.location)
        /\ get_inventory(Alone(req[p]).items, seen.location) # seen.rows

\* both requests of a pair have been answered
BothDone == \A p \in Procs : pc[p] = "done"

\* C11 as claimed: two transfers of one item with valid amounts that touch a
\* common (name, location) record, their steps interleaved in any way: once
\* both have completed, the total of the item is what it was before either
\* started.
C11_ConcurrentConservation ==
    \A p \in Procs, o \in Procs :
        (/\ p # o /\ BothDone
         /\ req[p].op \in Transfers /\ req[o].op \in Transfers
         /\ req[p].name = req[o].name
         /\ req[p].quantity > 0 /\ req[o].quantity > 0
         /\ {req[p].from, req[p].to} \cap {req[o].from, req[o].to} # {})
        => Total(items, req[p].name) = Total(req[p].base, req[p].name)

\* C12 as claimed: two POST /move racing to take stock away from one source
\* record, each amount within the quantity the record holds and the two
\* together above it: at most one of them succeeds, and the source quantity
\* written is not negative.
C12_OverdrawRejected ==
    \A p \in Procs, o \in Procs :
        (/\ p # o /\ BothDone
         /\ req[p].op = "move_inventory" /\ req[o].op = "move_inventory"
         /\ req[p].src # 0 /\ req[p].src = req[o].src
         /\ req[p].from # req[p].to /\ req[o].from # req[o].to
         /\ req[p].base = req[o].base
         /\ req[p].quantity > 0 /\ req[o].quantity > 0
         /\ req[p].quantity <= req[p].base[req[p].src].quantity
         /\ req[o].quantity <= req[p].base[req[p].src].quantity
         /\ req[p].quantity + req[o].quantity > req[p].base[req[p].src].quantity)
        => /\ ~(req[p].status = 200 /\ req[o].status = 200)
           /\ items[req[p].src].quantity >= 0

\* C13 as claimed: two requests that both looked for a pair not yet in the
\* ledger before either committed, and both went on to create it (receives,
\* transfers to it, or one of each): the committed ledger holds at most one
\* record of that pair.
C13_ConcurrentUnique ==
    \A p \in Procs, o \in Procs :
        (/\ p # o /\ BothDone
         /\ req[p].name = req[o].name /\ req[p].to = req[o].to
         /\ Len(sess[p].new) = 1 /\ Len(sess[o].new) = 1)
        => Cardinality(Filter(items, req[p].name, req[p].to)) <= 1

\* C14: delete by id. An existing record is removed whatever its quantity,
\* the total of its item drops by that quantity and every other record stays
\* as it was; an id with no record is answered 404 and nothing changes.
C14_Delete ==
    Idle =>
    \A id \in 1..MaxId :
        \A r \in {delete_item(items, nextId, id)} :
            IF id \in DOMAIN items
            THEN /\ r.status = 200
                 /\ DOMAIN r.items = DOMAIN items \ {id}
                 /\ \A i \in DOMAIN r.items : r.items[i] = items[i]
                 /\ Total(r.items, items[id].name) =
                        Total(items, items[id].name) - items[id].quantity
                 /\ r.nextId = nextId
            ELSE r.status = 404 /\ r.items = items /\ r.nextId = nextId

\* a record has just been deleted, so the total of some item that had been
\* received is now below what was received, while another record remains
C14_Witness ==
    /\ last.op = "delete_item" /\ last.status = 200
    /\ last.detail[1] \notin DOMAIN items
    /\ DOMAIN items # {}

\* C15 as claimed: in a run of requests served one at a time no request is
\* refused by the storage, that is, no commit is attempted that would write
\* a quantity < 0 (the handler's unhandled IntegrityError is status 500).
C15_NoConstraintViolation == last.status # 500

\* C16 as claimed: from the same ledger and with the same arguments the form
\* endpoints leave the ledger and the id sequence the JSON endpoints leave.
C16_SameSurfaces ==
    Idle =>
    /\ \A n \in Names, q \in Amounts, l \in Locations :
        \A r \in {create_item(items, nextId, n, q, l)},
           g \in {add_item_form(items, nextId, n, q, l)} :
            r.items = g.items /\ r.nextId = g.nextId
    /\ \A n \in Names, q \in Amounts, f \in Locations, t \in Locations :
        \A r \in {move_inventory(items, nextId, n, q, f, t)},
           g \in {move_item_form(items, nextId, n, q, f, t)} :
            r.items = g.items /\ r.nextId = g.nextId

====
